---- MODULE Spec2Model ----
(***************************************************************************)
(* A model of src/app.py: the POST /generate_misuse_cases handler          *)
(* (generate_misuse_cases, lines 96-242), the APILogger calls it makes,    *)
(* json.loads and the re.search rescue it applies to the completion text.  *)
(*                                                                         *)
(* Text is modelled as a sequence of tokens.  The tokens "[", "]", "{",    *)
(* "}", "," are the JSON punctuation characters, "w" is one whitespace     *)
(* character, "p" is a run of prose characters that is not JSON (a word),  *)
(* and an object token ("OFull", "OPart") is the text of one well-formed   *)
(* flat JSON object: it starts with the character "{" and ends with the    *)
(* character "}".                                                          *)
(***************************************************************************)
EXTENDS Naturals, Sequences, FiniteSets, TLC

VARIABLES
    AISUITE_AVAILABLE,  \* module flag set by the import at lines 11-15
    client,             \* "Client" or "None" (lines 67-75)
    raising_logger,     \* TRUE when api_logger is a sink whose calls may raise
    pc,                 \* position of the handler in the current request
    body,               \* the JSON body of the current request
    gw,                 \* outcome of client.chat.completions.create
    trace,              \* observable effects of the current request, in order
    resp                \* the HTTP response of the current request

vars == <<AISUITE_AVAILABLE, client, raising_logger, pc, body, gw, trace, resp>>

\* Longest enumerated completion text, in tokens.
MaxLen == 4

----------------------------------------------------------------------------
(* JSON values: arrays and objects, tagged. An object's fields map to      *)
(* strings, each written as a sequence of parts.                           *)

Arr(elems) == [t |-> "arr", v |-> elems]

Obj(fields) == [t |-> "obj", v |-> fields]

EmptyObject == Obj(<<>>)

\* the list of required fields at line 182, in its order
RequiredFields == <<"name", "description", "actor", "impact">>

RequiredSet == {RequiredFields[i] : i \in 1..Len(RequiredFields)}

\* f"Informasi {field} tidak tersedia" (line 184)
Placeholder(field) == <<"Informasi ", field, " tidak tersedia">>

ObjTokens == {"OFull", "OPart"}

\* the object an object token is the text of
ObjVal(tok) ==
    IF tok = "OFull"
    THEN Obj([name |-> <<"X">>, description |-> <<"Y">>,
              actor |-> <<"Z">>, impact |-> <<"W">>])
    ELSE Obj([name |-> <<"X2">>, severity |-> <<"high">>])

Alphabet == {"[", "]", "{", "}", ",", "w", "p"} \cup ObjTokens

----------------------------------------------------------------------------
(* json.loads *)

RECURSIVE SkipWs(_, _)
SkipWs(t, i) == IF i <= Len(t) /\ t[i] = "w" THEN SkipWs(t, i + 1) ELSE i

Fail == [ok |-> FALSE, val |-> EmptyObject, next |-> 0]

RECURSIVE ParseValue(_, _)
RECURSIVE ParseElems(_, _, _)
ParseValue(t, i) ==
    IF i > Len(t) THEN Fail
    ELSE IF t[i] \in ObjTokens
    THEN [ok |-> TRUE, val |-> ObjVal(t[i]), next |-> i + 1]
    ELSE IF t[i] = "{"
    THEN LET j == SkipWs(t, i + 1) IN
         IF j <= Len(t) /\ t[j] = "}"
         THEN [ok |-> TRUE, val |-> EmptyObject, next |-> j + 1]
         ELSE Fail
    ELSE IF t[i] = "["
    THEN LET j == SkipWs(t, i + 1) IN
         IF j <= Len(t) /\ t[j] = "]"
         THEN [ok |-> TRUE, val |-> Arr(<<>>), next |-> j + 1]
         ELSE ParseElems(t, j, <<>>)
    ELSE Fail

ParseElems(t, i, acc) ==
    LET r == ParseValue(t, i) IN
    IF ~r.ok THEN Fail
    ELSE LET j == SkipWs(t, r.next) IN
         IF j > Len(t) THEN Fail
         ELSE IF t[j] = "]"
         THEN [ok |-> TRUE, val |-> Arr(Append(acc, r.val)), next |-> j + 1]
         ELSE IF t[j] = ","
         THEN ParseElems(t, SkipWs(t, j + 1), Append(acc, r.val))
         ELSE Fail

\* json.loads(text): the whole text is one JSON value between optional
\* whitespace; anything else raises JSONDecodeError (ok = FALSE)
JsonLoads(t) ==
    LET r == ParseValue(t, SkipWs(t, 1)) IN
    IF r.ok /\ SkipWs(t, r.next) = Len(t) + 1
    THEN [ok |-> TRUE, val |-> r.val]
    ELSE [ok |-> FALSE, val |-> EmptyObject]

----------------------------------------------------------------------------
(* re.search(r'\[\s*\{.*\}\s*\]', result, re.DOTALL) *)

\* the token holds the character "{" as its first character
StartsBrace(tok) == tok = "{" \/ tok \in ObjTokens

\* the token holds the character "}" as its last character
EndsBrace(tok) == tok = "}" \/ tok \in ObjTokens

\* the positions where a match that starts at i can end: "[" at i,
\* whitespace, a "{" at a, any characters, a "}" at b after that "{",
\* whitespace, "]"
MatchEnds(t, i) ==
    IF t[i] # "[" THEN {}
    ELSE LET a == SkipWs(t, i + 1) IN
         IF a > Len(t) \/ ~StartsBrace(t[a]) THEN {}
         ELSE {j \in a..Len(t) :
                 /\ t[j] = "]"
                 /\ \E b \in a..(j - 1) :
                      /\ EndsBrace(t[b])
                      /\ (b > a \/ t[a] \in ObjTokens)
                      /\ SkipWs(t, b + 1) = j}

Min(S) == CHOOSE x \in S : \A y \in S : x <= y

Max(S) == CHOOSE x \in S : \A y \in S : x >= y

\* ReSearch as re.match: the pattern tried at the start of the text only
ReMatch(t) ==
    IF Len(t) = 0 \/ MatchEnds(t, 1) = {}
    THEN [found |-> FALSE, group |-> <<>>]
    ELSE [found |-> TRUE, group |-> SubSeq(t, 1, Max(MatchEnds(t, 1)))]

\* the leftmost start that matches, and from it the longest match (.* is
\* greedy); group is json_match.group(0)
ReSearch(t) ==
    LET starts == {i \in 1..Len(t) : MatchEnds(t, i) # {}} IN
    IF starts = {} THEN [found |-> FALSE, group |-> <<>>]
    ELSE LET i == Min(starts) IN
         [found |-> TRUE, group |-> SubSeq(t, i, Max(MatchEnds(t, i)))]

----------------------------------------------------------------------------
(* The loop at lines 180-184 over the strictly decoded value. *)

\* FillMissing rebuilding each element from the four required fields only
FillMissingDroppingExtras(o) ==
    Obj([f \in RequiredSet |->
           IF f \in DOMAIN o.v THEN o.v[f] ELSE Placeholder(f)])

\* lines 182-184 on one dict: a missing required field gets the placeholder
FillMissing(o) ==
    Obj([f \in (DOMAIN o.v) \cup RequiredSet |->
           IF f \in DOMAIN o.v THEN o.v[f] ELSE Placeholder(f)])

\* enumerate(misuse_cases): a list is walked in order and a dict by its
\* keys.  `field not in misuse_case` followed by the item assignment raises
\* TypeError for an element that is a list, and for a key of a dict (a str
\* that does not contain all four field names); an empty dict has no keys.
ValidateStructure(val) ==
    IF val.t = "arr"
    THEN IF \E i \in 1..Len(val.v) : val.v[i].t # "obj"
         THEN [raised |-> TRUE, val |-> val]
         ELSE [raised |-> FALSE,
               val |-> Arr([i \in 1..Len(val.v) |-> FillMissing(val.v[i])])]
    ELSE [raised |-> DOMAIN val.v # {}, val |-> val]

----------------------------------------------------------------------------
(* Responses: jsonify(...) with its status code. *)

NoData == [t |-> "absent", v |-> <<>>]

NoResp == [code |-> 0, status |-> "none", message |-> FALSE, data |-> NoData]

\* lines 100-103
Unavailable503 ==
    [code |-> 503, status |-> "error", message |-> TRUE, data |-> NoData]

\* lines 113-116
Validation400 ==
    [code |-> 400, status |-> "error", message |-> TRUE, data |-> NoData]

\* lines 186 and 196
Success200(data) ==
    [code |-> 200, status |-> "success", message |-> FALSE, data |-> data]

\* lines 213-217 and 228-232
SoftError200 ==
    [code |-> 200, status |-> "error", message |-> TRUE, data |-> Arr(<<>>)]

\* lines 238-242
Unexpected500 ==
    [code |-> 500, status |-> "error", message |-> TRUE, data |-> Arr(<<>>)]

----------------------------------------------------------------------------
(* Request bodies (request.json) and completion texts. *)

\* a str as a sequence of characters; an element of otherUseCases as a
\* tagged JSON scalar
Str(s) == [t |-> "str", v |-> s]

Num(n) == [t |-> "num", v |-> n]

\* a JSON object body: the keys it holds and their values
Dict(keys, name, others) ==
    [is_object |-> TRUE, keys |-> keys, useCaseName |-> name,
     otherUseCases |-> others]

\* a body that is valid JSON but no object (a list, a string, null):
\* data.get raises AttributeError at line 107
NotAnObject ==
    [is_object |-> FALSE, keys |-> {}, useCaseName |-> <<>>,
     otherUseCases |-> <<>>]

\* [], {}, {"useCaseName": ""}, {"useCaseName": " "},
\* {"otherUseCases": ["Logout"]}, and useCaseName "L" with otherUseCases
\* [], ["Logout"] and [1]
Bodies ==
    { NotAnObject,
      Dict({}, <<>>, <<>>),
      Dict({"useCaseName"}, <<>>, <<>>),
      Dict({"useCaseName"}, <<" ">>, <<>>),
      Dict({"otherUseCases"}, <<>>, <<Str("Logout")>>),
      Dict({"useCaseName", "otherUseCases"}, <<"L">>, <<>>),
      Dict({"useCaseName", "otherUseCases"}, <<"L">>, <<Str("Logout")>>),
      Dict({"useCaseName", "otherUseCases"}, <<"L">>, <<Num(1)>>) }

\* data.get(key, default)
Get(data, key, default) ==
    IF key \in data.keys
    THEN IF key = "useCaseName" THEN data.useCaseName ELSE data.otherUseCases
    ELSE default

\* `not use_case_name` (line 112): only the empty str is falsy
Falsy(s) == Len(s) = 0

\* ', '.join(other_use_cases) if other_use_cases else 'Tidak ada' (line
\* 136): join raises TypeError on an element that is not a str
JoinRaises(others) ==
    Len(others) > 0 /\ \E i \in 1..Len(others) : others[i].t # "str"

BoundedTexts == UNION {[1..n -> Alphabet] : n \in 0..MaxLen}

\* the texts of the scenarios: three well-formed objects; an array in
\* prose; a partial and a full object; prose on both sides; two arrays
ScenarioTexts ==
    { <<"[", "OFull", ",", "OFull", ",", "OFull", "]">>,
      <<"p", "w", "p", "w", "[", "OFull", "]">>,
      <<"[", "OPart", ",", "w", "OFull", "]">>,
      <<"p", "[", "OPart", ",", "OFull", "]", "p">>,
      <<"[", "OFull", "]", "p", "[", "OFull", "]">> }

Texts == BoundedTexts \cup ScenarioTexts

NoGw == [kind |-> "none", text |-> <<>>]

----------------------------------------------------------------------------
(* The logging calls. The standard handlers configured at lines 22-29     *)
(* swallow emit errors, so APILogger's calls return; a sink that raises is *)
(* an api_logger replaced by one whose calls may fail.                     *)

\* the call sites of api_logger in generate_misuse_cases
LogSites == {"147", "168", "198", "208", "221"}

\* which call sites raise during one request
LogFaults ==
    IF raising_logger
    THEN {{}} \cup {{s} : s \in LogSites} \cup {LogSites}
    ELSE {{}}

----------------------------------------------------------------------------
(* The except clauses and the parse, as the events they add to the trace   *)
(* and the response they return. The events are the calls of api_logger,   *)
(* of the root logger (logging.error with a message, and with              *)
(* traceback.format_exc()), of json.loads and re.search, and the return of *)
(* the response.                                                           *)

\* HandleUnexpected without the logging.error(traceback.format_exc()) line
HandleUnexpectedNoTraceback ==
    [ev |-> <<"logging.error", "respond">>, resp |-> Unexpected500]

\* lines 234-242: logging.error(message), logging.error(traceback), 500
HandleUnexpected ==
    [ev |-> <<"logging.error", "traceback", "respond">>,
     resp |-> Unexpected500]

\* HandleGatewayError returning the body with status code 500
HandleGatewayErrorEscalated(faults) ==
    IF "221" \in faults
    THEN HandleUnexpected
    ELSE [ev |-> <<"log_response:error", "logging.error", "traceback",
                   "respond">>,
          resp |-> Unexpected500]

\* lines 219-232: log_response(error), logging.error, traceback, soft error;
\* an exception of log_response leaves the clause for the outer one
HandleGatewayError(faults) ==
    IF "221" \in faults
    THEN HandleUnexpected
    ELSE [ev |-> <<"log_response:error", "logging.error", "traceback",
                   "respond">>,
          resp |-> SoftError200]

\* HandleParseFailure re-raising instead of returning the soft error
HandleParseFailureEscalated(faults) ==
    IF "208" \in faults
    THEN HandleGatewayError(faults)
    ELSE [ev |-> <<"log_response:error", "respond">>, resp |-> Unexpected500]

\* lines 206-217: log_response(error), soft error
HandleParseFailure(faults) ==
    IF "208" \in faults
    THEN HandleGatewayError(faults)
    ELSE [ev |-> <<"log_response:error", "respond">>, resp |-> SoftError200]

\* lines 188-217: the rescue on JSONDecodeError
RescueParse(result, faults) ==
    LET json_match == ReSearch(result)
        Then(ev, out) == [ev |-> ev \o out.ev, resp |-> out.resp]
    IN
    IF ~json_match.found
    THEN Then(<<"re.search">>, HandleParseFailure(faults))
    ELSE LET misuse_cases == JsonLoads(json_match.group) IN
         IF misuse_cases.ok
         THEN [ev |-> <<"re.search", "json.loads", "respond">>,
               resp |-> Success200(misuse_cases.val)]
         ELSE IF "198" \in faults
         THEN Then(<<"re.search", "json.loads">>, HandleGatewayError(faults))
         ELSE Then(<<"re.search", "json.loads", "log_response:error",
                     "logging.error", "traceback">>,
                   HandleParseFailure(faults))

\* lines 174-217: the strict parse, the structure loop, the rescue
ParseResult(result, faults) ==
    LET decoded == JsonLoads(result)
        Then(ev, out) == [ev |-> ev \o out.ev, resp |-> out.resp]
    IN
    IF decoded.ok
    THEN LET misuse_cases == ValidateStructure(decoded.val) IN
         IF misuse_cases.raised
         THEN Then(<<"json.loads">>, HandleGatewayError(faults))
         ELSE [ev |-> <<"json.loads", "respond">>,
               resp |-> Success200(misuse_cases.val)]
    ELSE Then(<<"json.loads">>, RescueParse(result, faults))

\* lines 165-217 once create has returned a str
HandleCompletion(result, faults) ==
    IF "168" \in faults
    THEN HandleGatewayError(faults)
    ELSE LET rest == ParseResult(result, faults) IN
         [ev |-> <<"log_response:success">> \o rest.ev, resp |-> rest.resp]

\* lines 165-177 once create has returned no content: json.loads(None)
\* raises TypeError
HandleNoContent(faults) ==
    IF "168" \in faults
    THEN HandleGatewayError(faults)
    ELSE LET rest == HandleGatewayError(faults) IN
         [ev |-> <<"log_response:success", "json.loads">> \o rest.ev,
          resp |-> rest.resp]

----------------------------------------------------------------------------
(* The handler, step by step. *)

\* lines 11-15 and 66-75: the import either succeeds and the client is
\* built, or fails and client is None; api_logger is the standard one
Init ==
    /\ \/ AISUITE_AVAILABLE = TRUE /\ client = "Client"
       \/ AISUITE_AVAILABLE = FALSE /\ client = "None"
    /\ raising_logger = FALSE
    /\ pc = "idle"
    /\ body = NotAnObject
    /\ gw = NoGw
    /\ trace = <<>>
    /\ resp = NoResp

\* as Init, with an api_logger whose calls may raise
InitRaisingLogger ==
    /\ \/ AISUITE_AVAILABLE = TRUE /\ client = "Client"
       \/ AISUITE_AVAILABLE = FALSE /\ client = "None"
    /\ raising_logger = TRUE
    /\ pc = "idle"
    /\ body = NotAnObject
    /\ gw = NoGw
    /\ trace = <<>>
    /\ resp = NoResp

Finish(out) ==
    /\ trace' = trace \o out.ev
    /\ resp' = out.resp
    /\ pc' = "done"

\* line 96: a POST /generate_misuse_cases arrives
Receive ==
    /\ pc = "idle"
    /\ \E b \in Bodies : body' = b
    /\ pc' = "guard"
    /\ UNCHANGED <<AISUITE_AVAILABLE, client, raising_logger, gw, trace, resp>>

\* CheckAvailable with the guard placed after the validation of useCaseName
CheckAvailableAfterValidation ==
    /\ pc = "guard"
    /\ IF body.is_object /\ Falsy(Get(body, "useCaseName", <<>>))
       THEN /\ trace' = trace \o <<"validate", "respond">>
            /\ resp' = Validation400
            /\ pc' = "done"
       ELSE IF ~AISUITE_AVAILABLE \/ client = "None"
       THEN /\ trace' = trace \o <<"guard", "respond">>
            /\ resp' = Unavailable503
            /\ pc' = "done"
       ELSE /\ trace' = Append(trace, "guard")
            /\ resp' = resp
            /\ pc' = "validate"
    /\ UNCHANGED <<AISUITE_AVAILABLE, client, raising_logger, body, gw>>

\* lines 98-103: the availability guard
CheckAvailable ==
    /\ pc = "guard"
    /\ IF ~AISUITE_AVAILABLE \/ client = "None"
       THEN /\ trace' = trace \o <<"guard", "respond">>
            /\ resp' = Unavailable503
            /\ pc' = "done"
       ELSE /\ trace' = Append(trace, "guard")
            /\ resp' = resp
            /\ pc' = "validate"
    /\ UNCHANGED <<AISUITE_AVAILABLE, client, raising_logger, body, gw>>

\* lines 105-116: read the fields, validate useCaseName
ValidateRequest ==
    /\ pc = "validate"
    /\ IF ~body.is_object
       THEN Finish(HandleUnexpected)
       ELSE LET use_case_name == Get(body, "useCaseName", <<>>) IN
            IF Falsy(use_case_name)
            THEN /\ trace' = trace \o <<"validate", "respond">>
                 /\ resp' = Validation400
                 /\ pc' = "done"
            ELSE /\ trace' = Append(trace, "validate")
                 /\ resp' = resp
                 /\ pc' = "prompt"
    /\ UNCHANGED <<AISUITE_AVAILABLE, client, raising_logger, body, gw>>

\* lines 118-144: the prompts and the messages
BuildPrompt ==
    /\ pc = "prompt"
    /\ LET other_use_cases == Get(body, "otherUseCases", <<>>) IN
       IF JoinRaises(other_use_cases)
       THEN Finish(HandleUnexpected)
       ELSE /\ trace' = Append(trace, "prompt")
            /\ resp' = resp
            /\ pc' = "log_request"
    /\ UNCHANGED <<AISUITE_AVAILABLE, client, raising_logger, body, gw>>

\* lines 146-153: api_logger.log_request
LogRequest ==
    /\ pc = "log_request"
    /\ \E faults \in LogFaults :
         IF "147" \in faults
         THEN Finish(HandleUnexpected)
         ELSE /\ trace' = Append(trace, "log_request")
              /\ resp' = resp
              /\ pc' = "create"
    /\ UNCHANGED <<AISUITE_AVAILABLE, client, raising_logger, body, gw>>

\* lines 158-163: the call of client.chat.completions.create goes out
CallGateway ==
    /\ pc = "create"
    /\ trace' = Append(trace, "create")
    /\ pc' = "await"
    /\ UNCHANGED <<AISUITE_AVAILABLE, client, raising_logger, body, gw, resp>>

\* lines 219-232: create raises (timeout, transport or provider error)
GatewayFails ==
    /\ pc = "await"
    /\ gw' = [kind |-> "raised", text |-> <<>>]
    /\ \E faults \in LogFaults : Finish(HandleGatewayError(faults))
    /\ UNCHANGED <<AISUITE_AVAILABLE, client, raising_logger, body>>

\* lines 165-217: create returns a completion whose content is a str
GatewayReturns ==
    /\ pc = "await"
    /\ \E result \in Texts :
         /\ gw' = [kind |-> "text", text |-> result]
         /\ \E faults \in LogFaults : Finish(HandleCompletion(result, faults))
    /\ UNCHANGED <<AISUITE_AVAILABLE, client, raising_logger, body>>

\* lines 165-177 and 219-232: create returns a completion without content
GatewayReturnsNone ==
    /\ pc = "await"
    /\ gw' = [kind |-> "null", text |-> <<>>]
    /\ \E faults \in LogFaults : Finish(HandleNoContent(faults))
    /\ UNCHANGED <<AISUITE_AVAILABLE, client, raising_logger, body>>

\* the response is sent; the next request starts with nothing of this one
NextRequest ==
    /\ pc = "done"
    /\ pc' = "idle"
    /\ body' = NotAnObject
    /\ gw' = NoGw
    /\ trace' = <<>>
    /\ resp' = NoResp
    /\ UNCHANGED <<AISUITE_AVAILABLE, client, raising_logger>>

Next ==
    \/ Receive
    \/ CheckAvailable
    \/ ValidateRequest
    \/ BuildPrompt
    \/ LogRequest
    \/ CallGateway
    \/ GatewayFails
    \/ GatewayReturns
    \/ GatewayReturnsNone
    \/ NextRequest

\* the service as deployed
Spec == Init /\ [][Next]_vars

\* the service with an api_logger that may raise
SpecRaisingLogger == InitRaisingLogger /\ [][Next]_vars

----------------------------------------------------------------------------
(* What the properties read off a state. *)

Done == pc = "done"

Available == AISUITE_AVAILABLE /\ client # "None"

Logged(e) == \E i \in 1..Len(trace) : trace[i] = e

Count(e) == Cardinality({i \in 1..Len(trace) : trace[i] = e})

\* e is in the trace, and before the return of the response
LoggedBeforeRespond(e) ==
    \E i, j \in 1..Len(trace) : i < j /\ trace[i] = e /\ trace[j] = "respond"

\* the entries of api_logger and of the root logger
LogEntries ==
    {"log_request", "log_response:success", "log_response:error",
     "logging.error", "traceback"}

NotWs(tok) == tok # "w"

\* the text without its whitespace characters
Strip(t) == SelectSeq(t, NotWs)

\* JSON encoding of the objects and of the arrays of objects, written
\* independently of json.loads
ObjPool == {ObjVal(tok) : tok \in ObjTokens} \cup {EmptyObject}

DumpsObj(o) ==
    IF o = EmptyObject THEN <<"{", "}">>
    ELSE <<CHOOSE tok \in ObjTokens : ObjVal(tok) = o>>

RECURSIVE DumpsElems(_)
DumpsElems(a) ==
    IF Len(a) = 0 THEN <<>>
    ELSE IF Len(a) = 1 THEN DumpsObj(a[1])
    ELSE DumpsObj(a[1]) \o <<",">> \o DumpsElems(Tail(a))

Dumps(a) == <<"[">> \o DumpsElems(a) \o <<"]">>

\* Most objects in an array a property quantifies over.
MaxObjects == 3

ArraysOfObjects == UNION {[1..n -> ObjPool] : n \in 0..MaxObjects}

Dumped == {[a |-> a, text |-> Dumps(a)] : a \in ArraysOfObjects}

\* the arrays of objects whose encoding is text
EncodedBy(text) ==
    IF Len(text) >= 2 /\ text[1] = "[" /\ text[Len(text)] = "]"
    THEN {d.a : d \in {x \in Dumped : x.text = text}}
    ELSE {}

\* text without the prose (words and commas, no bracket and no brace)
\* before and after it
WithoutProse(text) ==
    LET inner == {k \in 1..Len(text) : text[k] \notin {"p", ","}} IN
    IF inner = {} THEN <<>> ELSE SubSeq(text, Min(inner), Max(inner))

----------------------------------------------------------------------------
(* Properties. *)

\* useCaseName is missing: the key is absent, or its value is empty or
\* holds whitespace only
MissingName(b) ==
    /\ b.is_object
    /\ LET n == Get(b, "useCaseName", <<>>) IN \A i \in 1..Len(n) : n[i] = " "

\* C1: with the integration available, a request whose useCaseName is
\* missing (absent, empty or whitespace-only) makes no gateway call and is
\* answered 400 with status "error".
C1_MissingNameRejected ==
    (Available /\ pc # "idle" /\ MissingName(body)) =>
        /\ ~Logged("create")
        /\ Done => (resp.code = 400 /\ resp.status = "error")

\* C2: with the integration unavailable every request, whatever its body,
\* is answered 503 with status "error" from the guard alone: no validation,
\* no prompt, no gateway call and no log_request or log_response entry.
C2_UnavailableFastFail ==
    (~Available /\ pc # "idle") =>
        /\ \A e \in LogEntries \cup {"validate", "prompt", "create",
                                     "json.loads", "re.search"} : ~Logged(e)
        /\ Done => /\ resp.code = 503
                   /\ resp.status = "error"
                   /\ trace = <<"guard", "respond">>

\* an unavailable service has answered a request that names a use case
C2_Witness ==
    /\ ~Available
    /\ Done
    /\ body.is_object
    /\ Get(body, "useCaseName", <<>>) = <<"L">>
    /\ resp.code = 503

\* C3: in every success response every element of data has the four
\* required fields, after the strict parse and after the rescue alike.
C3_AllFieldsPresent ==
    (Done /\ resp.status = "success" /\ resp.data.t = "arr") =>
        \A i \in 1..Len(resp.data.v) :
            resp.data.v[i].t = "obj" =>
                \A f \in RequiredSet :
                    /\ f \in DOMAIN resp.data.v[i].v
                    /\ Len(resp.data.v[i].v[f]) > 0

\* C4: when the completion is a strictly valid JSON array of objects the
\* response is 200 "success" and data has the elements of the decoded
\* array in their order, each with its own fields unchanged (extra fields
\* included) and exactly the missing required fields added as placeholders.
C4_StrictArrayNormalized ==
    (Done /\ gw.kind = "text") =>
        \A a \in EncodedBy(Strip(gw.text)) :
            /\ resp.code = 200
            /\ resp.status = "success"
            /\ resp.data.t = "arr"
            /\ Len(resp.data.v) = Len(a)
            /\ \A i \in 1..Len(a) :
                 LET given == a[i].v
                     out == resp.data.v[i].v
                 IN /\ resp.data.v[i].t = "obj"
                    /\ DOMAIN out = (DOMAIN given) \cup RequiredSet
                    /\ \A f \in DOMAIN given : out[f] = given[f]
                    /\ \A f \in RequiredSet \ DOMAIN given :
                         out[f] = Placeholder(f)

\* a partial object (an extra field, three fields missing) followed by a
\* full one has been answered in that order
C4_Witness ==
    /\ Done
    /\ gw.text = <<"[", "OPart", ",", "w", "OFull", "]">>
    /\ resp.status = "success"
    /\ Len(resp.data.v) = 2
    /\ resp.data.v[1].v["severity"] = <<"high">>
    /\ resp.data.v[1].v["actor"] = Placeholder("actor")
    /\ resp.data.v[2] = ObjVal("OFull")

\* C5: when the gateway call fails the response is 200 with status "error",
\* a message and an empty data array.
C5_GatewayFailureSoftError ==
    (Done /\ gw.kind = "raised") =>
        /\ resp.code = 200
        /\ resp.status = "error"
        /\ resp.message
        /\ resp.data = Arr(<<>>)

\* a gateway failure has been answered
C5_Witness ==
    /\ Done
    /\ gw.kind = "raised"
    /\ Count("create") = 1
    /\ resp.status = "error"

\* C6: when the strict decode fails and the pattern finds nothing, or
\* finds a span that does not decode, the response is 200 with status
\* "error" and an empty data array, after one pattern search, at most two
\* decodes and the one gateway call.
C6_ParseFailureSoftError ==
    (/\ Done
     /\ gw.kind = "text"
     /\ ~JsonLoads(gw.text).ok
     /\ LET m == ReSearch(gw.text) IN ~m.found \/ ~JsonLoads(m.group).ok) =>
        /\ resp.code = 200
        /\ resp.status = "error"
        /\ resp.data = Arr(<<>>)
        /\ Count("re.search") = 1
        /\ Count("json.loads") <= 2
        /\ Count("create") = 1

\* two arrays with prose between them: the greedy span covers both, does
\* not decode, and the request has been answered
C6_Witness ==
    /\ Done
    /\ gw.text = <<"[", "OFull", "]", "p", "[", "OFull", "]">>
    /\ Count("json.loads") = 2
    /\ resp.status = "error"

\* C7: when the completion is prose around one well-formed array of one
\* or more objects, the strict parse fails, the pattern selects the array
\* and the response is 200 "success" with data equal to the decoded array.
C7_ProseWrappedArrayRescued ==
    (Done /\ gw.kind = "text") =>
        LET text == Strip(gw.text)
            array == WithoutProse(text)
        IN
        Len(array) < Len(text) =>
            \A a \in EncodedBy(array) :
                Len(a) >= 1 =>
                    /\ resp.code = 200
                    /\ resp.status = "success"
                    /\ resp.data = Arr(a)
                    /\ Count("re.search") = 1
                    /\ Count("json.loads") = 2

\* "Here is the result: [{...}]" has been answered with one element
C7_Witness ==
    /\ Done
    /\ gw.text = <<"p", "w", "p", "w", "[", "OFull", "]">>
    /\ resp.status = "success"
    /\ Len(resp.data.v) = 1
    /\ Logged("re.search")

\* C8: a request makes at most one gateway call, and exactly one when the
\* integration is available and validation passes.
C8_ExactlyOneCall ==
    /\ Count("create") <= 1
    /\ (/\ Done
        /\ Available
        /\ body.is_object
        /\ ~Falsy(Get(body, "useCaseName", <<>>))) => Count("create") = 1

\* the response of the request when every call of api_logger returns
ResponseWithLogging ==
    IF gw.kind = "raised" THEN HandleGatewayError({}).resp
    ELSE IF gw.kind = "text" THEN HandleCompletion(gw.text, {}).resp
    ELSE HandleNoContent({}).resp

\* C9: the response is the same whether the calls of api_logger return or
\* raise: a request whose prompt was built reaches the gateway and gets
\* the response it gets when every logging call returns.
C9_LoggingObservational ==
    (Done /\ Logged("prompt")) =>
        /\ gw.kind # "none"
        /\ resp = ResponseWithLogging

\* C10 as stated: on every error path the error and a stack trace are
\* logged before the response is returned.
C10_EveryErrorPathLogsTraceback ==
    (Done /\ resp.status = "error") =>
        /\ LoggedBeforeRespond("logging.error")
             \/ LoggedBeforeRespond("log_response:error")
        /\ LoggedBeforeRespond("traceback")

\* the error paths entered through an except clause: the 500 path, a
\* gateway failure or an exception after the call, a rescue match that
\* does not decode
ExceptPath ==
    \/ resp.code = 500
    \/ gw.kind \in {"raised", "null"}
    \/ /\ gw.kind = "text"
       /\ resp.status = "error"
       /\ JsonLoads(gw.text).ok \/ ReSearch(gw.text).found

\* C10 amended: the paths entered through an except clause log the error
\* and a stack trace before the response; the parse failure without a
\* pattern match logs the error through log_response and no stack trace;
\* the 503 and 400 paths log nothing.
C10_ExceptPathsLogTraceback ==
    Done =>
        /\ ExceptPath =>
             /\ LoggedBeforeRespond("logging.error")
             /\ LoggedBeforeRespond("traceback")
        /\ resp.code \in {400, 503} => \A e \in LogEntries : ~Logged(e)
        /\ (/\ gw.kind = "text"
            /\ resp.status = "error"
            /\ ~JsonLoads(gw.text).ok
            /\ ~ReSearch(gw.text).found) =>
             /\ LoggedBeforeRespond("log_response:error")
             /\ ~Logged("traceback")
             /\ ~Logged("logging.error")

\* a body that is no JSON object has been answered 500
C10_Witness ==
    /\ Done
    /\ Available
    /\ ~body.is_object
    /\ resp.code = 500
    /\ LoggedBeforeRespond("traceback")

============================================================================
